---- MODULE Spec2Model ----
(***************************************************************************)
(* Model of notebooks/base.py: BaseScript's JSON-lines persistence.        *)
(*   _write_json_files  appends records to rotating files per file prefix  *)
(*   _read_json_files   a generator that globs a directory, deserializes   *)
(*                      every line and yields the records                  *)
(***************************************************************************)
EXTENDS Integers, Sequences, FiniteSets, TLC

\* ------------------------------------------------------------------ bounds
Prefixes == {"a", "b"}
\* number of _write_json_files calls in one run
MaxCalls == 2
\* the clock (datetime.utcnow) advances at most this far
MaxClock == 1
\* at most this many I/O errors are raised in one run
MaxFailures == 1
\* *.json files in the input folder, and lines in all of them together
MaxInFiles == 2
MaxInLines == 2

\* base.py line 123: rows_written >= 200
ROTATION_THRESHOLD == 200

Range(s) == {s[i] : i \in DOMAIN s}

\* ------------------------------------------------------------- the records
\* An AvroSchema object of the model: the positional fields <<stream, id>>.
\* content.as_dict(): the object's mapping.
as_dict(content) == [stream |-> content[1], id |-> content[2]]

\* json.dump(mapping, file) followed by write("\n"): the text of one line,
\* the members of a JSON object in key order.
json_dump(mapping) ==
  [kind |-> "object", members |-> << <<"stream", mapping.stream>>, <<"id", mapping.id>> >>]

\* What is left of a line whose write was cut short: not a JSON text.
PartialLine == [kind |-> "partial", members |-> << >>]

\* ------------------------------------------------------------------- state
VARIABLES
  file_counter,       \* self.__file_counter: prefix -> <<files_written, rows_written, create_time>>
  current_file_name,  \* self.__current_file_name
  logger_info,        \* the events _write_json_files passed to self.logger.info
  now,                \* int(datetime.utcnow().timestamp())
  out_dirs,           \* base_output_folder: directory name -> (file name -> lines)
  calls,              \* number of _write_json_files calls made
  failures,           \* number of I/O errors raised so far
  last_call,          \* the last _write_json_files call: its prefix, the I/O error it
                      \* met, whether it raised, whether it ran os.makedirs (line 109),
                      \* the file names its records were aimed at (a name once per
                      \* run of records aimed at it), the output handles left open
                      \* and the most that were open at once
  passed,             \* prefix -> the records whose line write completed, in order
  recorded,           \* prefix -> number of times line 120 ran for the prefix
  in_dir,             \* the directory under input_folder: file name -> lines
  reader              \* the generator _read_json_files returned

writer_vars == <<file_counter, current_file_name, logger_info, now, out_dirs,
                 calls, failures, last_call, passed, recorded>>
reader_vars == <<in_dir, reader>>
vars == <<writer_vars, reader_vars>>

\* f"{file_prefix}_{files_written}.json"
FileName(file_prefix, files_written) ==
  [stem |-> <<file_prefix, files_written>>, ext |-> "json"]

\* file_prefix + f"_{create_time}"
FolderName(file_prefix, create_time) == <<file_prefix, create_time>>

\* defaultdict(lambda: [0, 0, f"{int(datetime.utcnow().timestamp())}"])
CounterGet_single(counter, file_prefix, clock) ==
  [p \in {file_prefix} |->
     IF file_prefix \in DOMAIN counter THEN counter[p] ELSE <<0, 0, clock>>]

CounterGet(counter, file_prefix, clock) ==
  IF file_prefix \in DOMAIN counter
  THEN counter
  ELSE [p \in DOMAIN counter \cup {file_prefix} |->
          IF p = file_prefix THEN <<0, 0, clock>> ELSE counter[p]]

\* os.makedirs(output_folder, exist_ok=True)
makedirs(dirs, folder) ==
  IF folder \in DOMAIN dirs
  THEN dirs
  ELSE [d \in DOMAIN dirs \cup {folder} |-> IF d = folder THEN << >> ELSE dirs[d]]

\* The lines of a file, none when it does not exist.
Lines(dir, name) == IF name \in DOMAIN dir THEN dir[name] ELSE << >>

\* (output_folder / file_name).open("a"): creates the file when absent.
OpenAppend(dir, name) ==
  IF name \in DOMAIN dir
  THEN dir
  ELSE [f \in DOMAIN dir \cup {name} |-> IF f = name THEN << >> ELSE dir[f]]

\* What the handle has written when it is closed.
WriteLine_truncate(dir, name, line) ==
  [f \in DOMAIN dir \cup {name} |-> IF f = name THEN <<line>> ELSE dir[f]]

WriteLine(dir, name, line) ==
  [f \in DOMAIN dir \cup {name} |->
     IF f = name THEN Append(Lines(dir, name), line) ELSE dir[f]]

\* Lines 120-124: count the row, re-read the counter, rotate at the threshold.
\* Returns the counter entry and the local files_written of the next iteration.
RecordWrite_skip(entry) ==
  LET bumped == <<entry[1], entry[2] + 1, entry[3]>>
  IN  [entry |-> IF bumped[2] >= ROTATION_THRESHOLD
                 THEN <<bumped[1] + 2, 0, bumped[3]>>
                 ELSE bumped,
       files_written |-> bumped[1]]

RecordWrite_restamp(entry) ==
  LET bumped == <<entry[1], entry[2] + 1, entry[3]>>
  IN  [entry |-> IF bumped[2] >= ROTATION_THRESHOLD
                 THEN <<bumped[1] + 1, 0, bumped[3] + 1>>
                 ELSE bumped,
       files_written |-> bumped[1]]

RecordWrite_gt(entry) ==
  LET bumped == <<entry[1], entry[2] + 1, entry[3]>>
  IN  [entry |-> IF bumped[2] > ROTATION_THRESHOLD
                 THEN <<bumped[1] + 1, 0, bumped[3]>>
                 ELSE bumped,
       files_written |-> bumped[1]]

RecordWrite(entry) ==
  LET bumped == <<entry[1], entry[2] + 1, entry[3]>>
  IN  [entry |-> IF bumped[2] >= ROTATION_THRESHOLD
                 THEN <<bumped[1] + 1, 0, bumped[3]>>
                 ELSE bumped,
       files_written |-> bumped[1]]

\* The I/O error a call may meet: none, or at record `at` in `stage`
\*   "open"   line 117 raises: nothing of the record is written
\*   "write"  line 118/119 raises: a part of the line is in the file, the
\*            counter is not touched
\*   "close"  leaving the with block raises (the buffered text is flushed
\*            there, and lost): lines 120-124 have already run
NoFail == [at |-> 0, stage |-> "none"]

\* Leaving a with block (lines 117 and 154), normally or by an exception:
\* the file's handle is closed.  handles is the number of handles open.
WithExit_leak(handles) == handles

WithExit(handles) == handles - 1

Max(a, b) == IF a >= b THEN a ELSE b

\* Line 114: self.logger.info("Writing file", file_name=file_name).
WritingFile(file_name) == [event |-> "Writing file", file_name |-> file_name]

\* Line 113: file_name != self.__current_file_name.
MovedOn_always(file_name, current) == TRUE

MovedOn(file_name, current) == file_name # current

\* Lines 112-124 for one content: st is [counter entry, local files_written,
\* current file name, "Writing file" events, names aimed at, folder content,
\* rows recorded, handles open, most handles open at once, error]; stage is
\* the I/O error this record meets ("none" when it meets none).
WriteOne(st, file_prefix, content, stage) ==
  LET file_name == FileName(file_prefix, st.files_written)
      opened == OpenAppend(st.dir, file_name)
      line == json_dump(as_dict(content))
      rw == RecordWrite(st.entry)
      moved == MovedOn(file_name, st.current_file_name)
      named == [st EXCEPT !.current_file_name = IF moved THEN file_name ELSE @,
                          !.log = IF moved THEN Append(@, WritingFile(file_name)) ELSE @,
                          !.targets = IF @ # << >> /\ @[Len(@)] = file_name
                                      THEN @ ELSE Append(@, file_name)]
      inside == [named EXCEPT !.peak_handles = Max(@, st.open_handles + 1),
                              !.open_handles = WithExit(@ + 1)]
  IN  CASE stage = "open" ->
             [named EXCEPT !.error = TRUE]
        [] stage = "write" ->
             [inside EXCEPT !.error = TRUE,
                           !.dir = WriteLine(opened, file_name, PartialLine)]
        [] stage = "close" ->
             [inside EXCEPT !.error = TRUE,
                           !.entry = rw.entry,
                           !.files_written = rw.files_written,
                           !.recorded = @ + 1,
                           !.dir = opened]
        [] OTHER ->
             [inside EXCEPT !.entry = rw.entry,
                           !.files_written = rw.files_written,
                           !.recorded = @ + 1,
                           !.dir = WriteLine(opened, file_name, line)]

\* Line 111, `for content in contents`, over contents[lo..hi] in order; an
\* error raised by one record ends the loop.  (The range is halved to keep
\* the evaluation shallow; the records are still taken left to right.)
RECURSIVE WriteLoop(_, _, _, _, _, _)
WriteLoop(st, file_prefix, contents, lo, hi, fail) ==
  IF lo > hi \/ st.error THEN st
  ELSE IF lo = hi
  THEN WriteOne(st, file_prefix, contents[lo],
                IF fail.at = lo THEN fail.stage ELSE "none")
  ELSE LET mid == (lo + hi) \div 2
           left == WriteLoop(st, file_prefix, contents, lo, mid, fail)
       IN  WriteLoop(left, file_prefix, contents, mid + 1, hi, fail)

\* The records a caller passes in one call: the next n of the prefix's stream.
Batch(file_prefix, n) ==
  [j \in 1..n |-> <<file_prefix, Len(passed[file_prefix]) + j>>]

\* One record, a batch that fills a file exactly, a batch that spans a rotation.
BatchSizes == {1, ROTATION_THRESHOLD, ROTATION_THRESHOLD + 1}

\* An error is met at the first or at the last record of the batch.
FailChoices(n) ==
  {NoFail} \cup
  IF failures < MaxFailures
  THEN [at : {1, n}, stage : {"open", "write", "close"}]
  ELSE {}

\* Line 108: files_written == 0 and rows_written == 0.
NothingWritten_always(files_written, rows_written) == TRUE

NothingWritten(files_written, rows_written) == files_written = 0 /\ rows_written = 0

\* _write_json_files(file_prefix, *contents), lines 104-124.
WriteJsonFiles(file_prefix, n, fail) ==
  LET counter == CounterGet(file_counter, file_prefix, now)
      entry == counter[file_prefix]
      folder == FolderName(file_prefix, entry[3])
      fresh == NothingWritten(entry[1], entry[2])
      dirs == IF fresh THEN makedirs(out_dirs, folder) ELSE out_dirs
  IN  /\ calls < MaxCalls
      /\ \E contents \in {Batch(file_prefix, n)} :
         \E st \in {WriteLoop([entry |-> entry, files_written |-> entry[1],
                               current_file_name |-> current_file_name,
                               log |-> logger_info, targets |-> << >>,
                               dir |-> dirs[folder], recorded |-> 0,
                               open_handles |-> last_call.open_handles,
                               peak_handles |-> 0, error |-> FALSE],
                              file_prefix, contents, 1, n, fail)} :
           /\ calls' = calls + 1
           /\ file_counter' = [counter EXCEPT ![file_prefix] = st.entry]
           /\ current_file_name' = st.current_file_name
           /\ logger_info' = st.log
           /\ out_dirs' = [dirs EXCEPT ![folder] = st.dir]
           /\ failures' = IF st.error THEN failures + 1 ELSE failures
           /\ last_call' = [file_prefix |-> file_prefix, fail |-> fail,
                            raised |-> st.error, makedirs |-> fresh,
                            targets |-> st.targets,
                            open_handles |-> st.open_handles,
                            peak_handles |-> st.peak_handles]
           /\ passed' = [passed EXCEPT ![file_prefix] =
                           @ \o (IF fail.at = 0 THEN contents
                                 ELSE SubSeq(contents, 1, fail.at - 1))]
           /\ recorded' = [recorded EXCEPT ![file_prefix] = @ + st.recorded]
           /\ UNCHANGED <<now, reader_vars>>

Write ==
  \E file_prefix \in Prefixes, n \in BatchSizes :
    \E fail \in FailChoices(n) : WriteJsonFiles(file_prefix, n, fail)

\* The wall clock moves on.  The program reads it only when a prefix is used
\* for the first time (line 58), so it is left alone once none is unused.
Tick ==
  /\ now < MaxClock
  /\ DOMAIN file_counter # Prefixes
  /\ now' = now + 1
  /\ UNCHANGED <<file_counter, current_file_name, logger_info, out_dirs, calls,
                 failures, last_call, passed, recorded, reader_vars>>

\* ------------------------------------------------------------------ reader
\* json.loads(line): a malformed text raises JSONDecodeError; an object
\* gives its mapping, any other JSON value is returned as it is.
json_loads(line) ==
  CASE line.kind = "object" ->
         [tag |-> "dict",
          value |-> [k \in {line.members[i][1] : i \in DOMAIN line.members} |->
                       line.members[CHOOSE i \in DOMAIN line.members :
                                      /\ line.members[i][1] = k
                                      /\ \A j \in DOMAIN line.members :
                                           line.members[j][1] = k => j <= i][2]]]
    [] line.kind = "array" -> [tag |-> "list"]
    [] OTHER -> [tag |-> "JSONDecodeError"]

\* avro_type(**mapping): the record type's validation wants exactly its fields.
avro_type(mapping) ==
  IF DOMAIN mapping = {"stream", "id"}
  THEN [tag |-> "ok", obj |-> <<mapping.stream, mapping.id>>]
  ELSE [tag |-> "ValidationError"]

NoReader ==
  [status |-> "none", path |-> << >>, order |-> << >>, fidx |-> 0, open |-> FALSE,
   pos |-> 0, good_obj_counter |-> 0, bad_obj_counter |-> 0, yielded |-> << >>,
   warning_logs |-> 0, finished_logs |-> 0, error |-> "none", handles |-> 0]

\* (self.input_folder / path): the input directory, or (path absolute or
\* leading out of the input folder) a session directory of the writer.
Resolve(path) ==
  IF path = << >> THEN in_dir
  ELSE IF path \in DOMAIN out_dirs THEN out_dirs[path]
  ELSE << >>

\* .glob("*.json"): the names that match.
Glob_jsonl(dir) == {f \in DOMAIN dir : f.ext = "jsonl"}

Glob_any(dir) == DOMAIN dir

Glob(dir) == {f \in DOMAIN dir : f.ext = "json"}

\* The orders in which the platform may list a set of names.
Orders(S) ==
  {o \in [1..Cardinality(S) -> S] : \A i, j \in DOMAIN o : i # j => o[i] # o[j]}

\* Lines 156-163, the body of `for line in input_file` for one line.  The
\* handler of line 160 parses the line again for its message (line 161), so a
\* line that is not JSON raises JSONDecodeError out of the handler; a JSON
\* value that is no mapping makes the ** of line 157 raise TypeError, which
\* line 160 does not catch.  The with block closes the file on the way out.
ReadLine_eager(g, line) ==
  LET parsed == json_loads(line)
  IN  IF parsed.tag = "JSONDecodeError"
      THEN [g EXCEPT !.status = "raised", !.error = "JSONDecodeError", !.open = FALSE,
                     !.handles = WithExit(@)]
      ELSE IF parsed.tag = "list"
      THEN [g EXCEPT !.status = "raised", !.error = "TypeError", !.open = FALSE,
                     !.handles = WithExit(@)]
      ELSE LET made == avro_type(parsed.value)
           IN  IF made.tag = "ok"
               THEN [g EXCEPT !.good_obj_counter = @ + 1,
                              !.yielded = Append(@, made.obj)]
               ELSE [g EXCEPT !.warning_logs = @ + 1,
                              !.bad_obj_counter = @ + 1]

ReadLine(g, line) ==
  LET parsed == json_loads(line)
  IN  IF parsed.tag = "JSONDecodeError"
      THEN [g EXCEPT !.status = "raised", !.error = "JSONDecodeError", !.open = FALSE,
                     !.handles = WithExit(@)]
      ELSE IF parsed.tag = "list"
      THEN [g EXCEPT !.status = "raised", !.error = "TypeError", !.open = FALSE,
                     !.handles = WithExit(@)]
      ELSE LET made == avro_type(parsed.value)
           IN  IF made.tag = "ok"
               THEN [g EXCEPT !.good_obj_counter = @ + 1,
                              !.yielded = Append(@, made.obj),
                              !.status = "suspended"]
               ELSE [g EXCEPT !.warning_logs = @ + 1,
                              !.bad_obj_counter = @ + 1]

\* Lines 151-169 from where the generator stands to its next yield, its end
\* or the error it raises: g.status is "running".
RECURSIVE RunToYield(_, _)
RunToYield(g, dir) ==
  IF ~g.open
  THEN IF g.fidx >= Len(g.order)
       THEN [g EXCEPT !.finished_logs = @ + 1, !.status = "done"]
       ELSE RunToYield([g EXCEPT !.fidx = @ + 1, !.open = TRUE, !.pos = 1,
                                 !.handles = @ + 1], dir)
  ELSE IF g.pos > Len(dir[g.order[g.fidx]])
  THEN RunToYield([g EXCEPT !.open = FALSE, !.handles = WithExit(@)], dir)
  ELSE LET after == ReadLine([g EXCEPT !.pos = @ + 1], dir[g.order[g.fidx]][g.pos])
       IN  IF after.status = "running" THEN RunToYield(after, dir) ELSE after

\* The caller asks for every value, list(self._read_json_files(...)): the
\* lines lo..hi of the open file, each followed by the next request.  (The
\* range is halved to keep the evaluation shallow.)
RECURSIVE DrainLines(_, _, _, _)
DrainLines(g, lines, lo, hi) ==
  IF lo > hi \/ g.status = "raised" THEN g
  ELSE IF lo = hi
  THEN LET after == ReadLine([g EXCEPT !.pos = lo + 1], lines[lo])
       IN  IF after.status = "suspended" THEN [after EXCEPT !.status = "running"]
           ELSE after
  ELSE LET mid == (lo + hi) \div 2
       IN  DrainLines(DrainLines(g, lines, lo, mid), lines, mid + 1, hi)

RECURSIVE DrainFiles(_, _)
DrainFiles(g, dir) ==
  IF g.status = "raised" THEN g
  ELSE IF g.fidx >= Len(g.order)
  THEN [g EXCEPT !.finished_logs = @ + 1, !.status = "done"]
  ELSE LET lines == dir[g.order[g.fidx + 1]]
           read == DrainLines([g EXCEPT !.fidx = @ + 1, !.open = TRUE, !.pos = 1,
                                        !.handles = @ + 1],
                              lines, 1, Len(lines))
       IN  DrainFiles(IF read.status = "raised" THEN read
                      ELSE [read EXCEPT !.open = FALSE, !.handles = WithExit(@)], dir)

\* The generator of a call, before its first value is asked for.
NewReader(path) == [NoReader EXCEPT !.status = "created", !.path = path]

\* list(self._read_json_files(path, avro_type)) with the files listed in `order`.
Drain(path, order) ==
  DrainFiles([NewReader(path) EXCEPT !.status = "running", !.order = order],
             Resolve(path))

\* self._read_json_files(path, avro_type): a generator; nothing runs yet.
\* (A generator keeps its counters in its own locals, so one stands for all.)
ReadCall ==
  /\ reader.status = "none"
  /\ reader' = NewReader(<< >>)
  /\ UNCHANGED <<writer_vars, in_dir>>

\* next() on a generator that has not started: line 151 lists the directory.
ReadFirst ==
  /\ reader.status = "created"
  /\ \E order \in Orders(Glob(Resolve(reader.path))) :
       \E g \in {RunToYield([reader EXCEPT !.status = "running", !.order = order],
                            Resolve(reader.path))} :
         reader' = g
  /\ UNCHANGED <<writer_vars, in_dir>>

\* next() on a generator suspended at the yield of line 159.
ReadNext ==
  /\ reader.status = "suspended"
  /\ \E g \in {RunToYield([reader EXCEPT !.status = "running"], Resolve(reader.path))} :
       reader' = g
  /\ UNCHANGED <<writer_vars, in_dir>>

\* The caller reads a session directory of the writer back, to the end.
ReadBack ==
  /\ reader.status = "none"
  /\ \E path \in DOMAIN out_dirs :
       \E order \in Orders(Glob(out_dirs[path])) :
         \E g \in {Drain(path, order)} : reader' = g
  /\ UNCHANGED <<writer_vars, in_dir>>

\* ------------------------------------------------------------- input folder
\* A line of an input file: the line of one of two records, a text that is
\* not JSON, a JSON object that lacks a field of the record type, a JSON array.
GarbageLine == [kind |-> "garbage", members |-> << >>]
BadSchemaLine == [kind |-> "object", members |-> << <<"id", 1>> >>]
ArrayLine == [kind |-> "array", members |-> << >>]
InLines ==
  {json_dump(as_dict(<<"in", 1>>)), json_dump(as_dict(<<"in", 2>>)),
   GarbageLine, BadSchemaLine, ArrayLine}

InNames == {[stem |-> <<"in", i>>, ext |-> "json"] : i \in 1..MaxInFiles}
OtherName == [stem |-> <<"in", 0>>, ext |-> "txt"]

RECURSIVE SumLen(_, _)
SumLen(dir, names) ==
  IF names = {} THEN 0
  ELSE LET f == CHOOSE x \in names : TRUE
       IN  Len(dir[f]) + SumLen(dir, names \ {f})

InFiles == UNION {[1..k -> InLines] : k \in 0..MaxInLines}

\* The *.json files an input directory may hold.
JsonDirs ==
  UNION {{d \in [S -> InFiles] : SumLen(d, S) <= MaxInLines} : S \in SUBSET InNames}

\* ... with or without a file that *.json does not match.
WithOther(d) ==
  [f \in DOMAIN d \cup {OtherName} |->
     IF f = OtherName THEN <<json_dump(as_dict(<<"in", 1>>))>> ELSE d[f]]

InputDirs == JsonDirs \cup {WithOther(d) : d \in JsonDirs}

\* ----------------------------------------------------------- specifications
\* BaseScript.__init__, lines 49-59.
InitWriter ==
  /\ file_counter = << >>
  /\ current_file_name = [stem |-> << >>, ext |-> ""]
  /\ logger_info = << >>
  /\ now = 0
  /\ out_dirs = << >>
  /\ calls = 0
  /\ failures = 0
  /\ last_call = [file_prefix |-> "", fail |-> NoFail, raised |-> FALSE,
                  makedirs |-> FALSE, targets |-> << >>,
                  open_handles |-> 0, peak_handles |-> 0]
  /\ passed = [p \in Prefixes |-> << >>]
  /\ recorded = [p \in Prefixes |-> 0]

InitReader == reader = NoReader

\* The writer, with the I/O errors it may meet.
Init == InitWriter /\ InitReader /\ in_dir = << >>
Next == Write \/ Tick
Spec == Init /\ [][Next]_vars

\* The reader over an input directory of any content.
InitRead == InitWriter /\ InitReader /\ in_dir \in InputDirs
NextRead == ReadCall \/ ReadFirst \/ ReadNext
SpecRead == InitRead /\ [][NextRead]_vars

\* Appends that meet no I/O error, and reading a session directory back.
WriteOk ==
  \E file_prefix \in Prefixes, n \in BatchSizes : WriteJsonFiles(file_prefix, n, NoFail)
NextRoundTrip == WriteOk \/ Tick \/ ReadBack
SpecRoundTrip == Init /\ [][NextRoundTrip]_vars

\* A run that only appends, or a run that only reads its input directory:
\* the writer and the reader have no state in common.
NextEither ==
  \/ in_dir = << >> /\ reader.status = "none" /\ (Write \/ Tick)
  \/ calls = 0 /\ now = 0 /\ (ReadCall \/ ReadFirst \/ ReadNext)
SpecEither == InitRead /\ [][NextEither]_vars

\* ------------------------------------------------------ what the claims use
\* The line a record is written as.
LineOf(content) == json_dump(as_dict(content))

\* The session directory of a prefix that has a counter entry.
PrefixFiles(p) == out_dirs[FolderName(p, file_counter[p][3])]

\* The lines of <p>_lo.json .. <p>_hi.json, one file after the other.
RECURSIVE ConcatFiles(_, _, _, _)
ConcatFiles(dir, p, lo, hi) ==
  IF lo > hi THEN << >>
  ELSE Lines(dir, FileName(p, lo)) \o ConcatFiles(dir, p, lo + 1, hi)

\* The highest file index a directory holds for p (-1: none).
MaxIndex(dir, p) ==
  IF \E f \in DOMAIN dir : f.stem[1] = p
  THEN CHOOSE i \in {f.stem[2] : f \in {g \in DOMAIN dir : g.stem[1] = p}} :
         \A f \in DOMAIN dir : f.stem[1] = p => f.stem[2] <= i
  ELSE -1

Count(s, x) == Cardinality({i \in DOMAIN s : s[i] = x})

\* s and t hold the same values the same number of times.
SameBag(s, t) ==
  /\ Len(s) = Len(t)
  /\ Range(s) = Range(t)
  /\ \/ Cardinality(Range(s)) = Len(s)
     \/ \A x \in Range(s) : Count(s, x) = Count(t, x)

\* The lines of the files *.json matches.
MatchedLines(dir) == UNION {{<<f, i>> : i \in DOMAIN dir[f]} : f \in Glob(dir)}
LinesOfKind(dir, K) == {x \in MatchedLines(dir) : dir[x[1]][x[2]] \in K}
ValidLines(dir) ==
  {x \in MatchedLines(dir) :
     /\ json_loads(dir[x[1]][x[2]]).tag = "dict"
     /\ avro_type(json_loads(dir[x[1]][x[2]]).value).tag = "ok"}

Ended == reader.status \in {"done", "raised"}

\* The stepwise generator and list() agree on every input.
DrainAgrees ==
  (Ended /\ reader.path = << >>) =>
     DrainFiles([NewReader(<< >>) EXCEPT !.status = "running", !.order = reader.order],
                in_dir) = reader

\* ------------------------------------------------------------------ claims
\* C1: the reader never raises on a bad line: with lines that are malformed
\* JSON or fail validation in the directory, a read that has ended has ended
\* normally, having yielded every valid line and counted every other line as
\* a failure (one valid and one invalid-JSON line: 1 record, counts 1 and 1).
C1_BadLineCountedNeverRaised ==
  (Ended /\ LinesOfKind(in_dir, {ArrayLine}) = {}) =>
     /\ reader.status = "done"
     /\ reader.good_obj_counter = Cardinality(ValidLines(in_dir))
     /\ Len(reader.yielded) = Cardinality(ValidLines(in_dir))
     /\ reader.bad_obj_counter =
          Cardinality(MatchedLines(in_dir)) - Cardinality(ValidLines(in_dir))

\* C2: with no I/O error, the k-th record written to a prefix is a line of
\* file <prefix>_<floor((k-1)/200)>.json, however the records are split into
\* calls.
C2_RecordLandsInFileOfItsIndex ==
  failures = 0 =>
    \A p \in DOMAIN file_counter :
      \A k \in 1..Len(passed[p]) :
        LineOf(passed[p][k]) \in
          Range(Lines(PrefixFiles(p), FileName(p, (k - 1) \div ROTATION_THRESHOLD)))

\* C3: no output file ever holds more than 200 lines.
C3_NoFileAboveThreshold ==
  \A d \in DOMAIN out_dirs :
    \A f \in DOMAIN out_dirs[d] : Len(out_dirs[d][f]) <= ROTATION_THRESHOLD

\* C4: after N recorded writes to a prefix its counter is files_written =
\* floor(N / 200) and rows_written = N mod 200, so rows_written is in
\* 0..199 whenever a call has returned or raised; every line written without
\* an I/O error is a recorded write.
C4_CounterIsQuotientAndRemainder ==
  \A p \in DOMAIN file_counter :
    /\ file_counter[p][1] = recorded[p] \div ROTATION_THRESHOLD
    /\ file_counter[p][2] = recorded[p] % ROTATION_THRESHOLD
    /\ file_counter[p][2] \in 0..(ROTATION_THRESHOLD - 1)
    /\ failures = 0 => recorded[p] = Len(passed[p])

C4_Witness ==
  /\ "a" \in DOMAIN file_counter
  /\ recorded["a"] = 2 * ROTATION_THRESHOLD
  /\ file_counter["a"][1] = 2
  /\ file_counter["a"][2] = 0

\* C5: a line that is malformed JSON and a line that is a JSON object failing
\* validation are treated alike: replacing one malformed line of the
\* directory by such an object, the read (files listed in the same order)
\* yields the same records, ends the same way and reports the same counts.
C5_SyntaxAndSchemaErrorsAlike ==
  Ended =>
    \A x \in LinesOfKind(in_dir, {GarbageLine}) :
      LET other == [in_dir EXCEPT ![x[1]][x[2]] = BadSchemaLine]
          run == DrainFiles([NewReader(<< >>) EXCEPT !.status = "running",
                                                     !.order = reader.order], other)
      IN  /\ run.yielded = reader.yielded
          /\ run.status = reader.status
          /\ run.good_obj_counter = reader.good_obj_counter
          /\ run.bad_obj_counter = reader.bad_obj_counter

\* C6: a read consumed to its end completes: it ends normally, with exactly
\* one 'Finished reading JSON files' event, a success count equal to the
\* number of records yielded, and counts that sum to the number of lines of
\* the matched files.
C6_ReadCompletesWithOneTally ==
  (Ended /\ LinesOfKind(in_dir, {ArrayLine}) = {}) =>
     /\ reader.status = "done"
     /\ reader.finished_logs = 1
     /\ reader.good_obj_counter = Len(reader.yielded)
     /\ reader.good_obj_counter + reader.bad_obj_counter =
          Cardinality(MatchedLines(in_dir))

\* C7: round trip: reading a prefix's session directory back, after appends
\* that met no I/O error, ends normally with failure count 0 and yields the
\* records appended to the prefix, each as often as it was appended, in
\* whatever order the files are listed.
C7_RoundTrip ==
  [][reader'.status # reader.status =>
       /\ reader'.status = "done"
       /\ reader'.bad_obj_counter = 0
       /\ reader'.good_obj_counter = Len(passed[reader'.path[1]])
       /\ SameBag(reader'.yielded, passed[reader'.path[1]])]_vars

C7_Witness ==
  /\ reader.status = "done"
  /\ Len(reader.order) = 3
  /\ Len(reader.yielded) = 2 * ROTATION_THRESHOLD + 2
  /\ reader.yielded # passed[reader.path[1]]

\* C8: an append to one prefix leaves every other prefix's counter entry and
\* files as they were, and each prefix that was appended to has one counter
\* entry and one session directory of its own.
C8_PrefixesIndependent ==
  [][calls' = calls + 1 =>
       /\ last_call'.file_prefix \in DOMAIN file_counter'
       /\ \A d \in DOMAIN out_dirs' :
            d[1] \in DOMAIN file_counter' /\ d = FolderName(d[1], file_counter'[d[1]][3])
       /\ \A b \in Prefixes \ {last_call'.file_prefix} :
            /\ b \in DOMAIN file_counter' <=> b \in DOMAIN file_counter
            /\ b \in DOMAIN file_counter => file_counter'[b] = file_counter[b]
            /\ \A d \in DOMAIN out_dirs \cup DOMAIN out_dirs' :
                 d[1] = b => /\ d \in DOMAIN out_dirs
                             /\ d \in DOMAIN out_dirs'
                             /\ out_dirs'[d] = out_dirs[d]]_vars

C8_Witness ==
  /\ calls = 2
  /\ DOMAIN file_counter = Prefixes
  /\ last_call.file_prefix = "a"
  /\ recorded["a"] = ROTATION_THRESHOLD + 1
  /\ file_counter["b"] = <<0, 1, 0>>
  /\ file_counter["a"][3] = 1

\* C9: the lines of a prefix's files, taken in increasing file index, are the
\* records whose write completed, in the order they were passed (call order,
\* then argument order), each once; what else the files hold is the partial
\* line of a write that raised.
C9_FilesKeepOrder ==
  \A p \in DOMAIN file_counter :
    LET all == ConcatFiles(PrefixFiles(p), p, 0, MaxIndex(PrefixFiles(p), p))
        whole == SelectSeq(all, LAMBDA l : l # PartialLine)
    IN  /\ whole = [i \in 1..Len(passed[p]) |-> LineOf(passed[p][i])]
        /\ failures = 0 => whole = all
        /\ \A f \in DOMAIN PrefixFiles(p) : f.stem[1] = p

C9_Witness ==
  /\ failures = 0
  /\ "a" \in DOMAIN file_counter
  /\ Len(passed["a"]) = 2 * ROTATION_THRESHOLD + 2
  /\ MaxIndex(PrefixFiles("a"), "a") = 2

\* C10: when the write of a record raises, the prefix's counter counts
\* exactly the line writes that succeeded: the failed record advances
\* neither rows_written nor files_written.
C10_FailedWriteNotCounted ==
  \A p \in DOMAIN file_counter :
    file_counter[p][1] * ROTATION_THRESHOLD + file_counter[p][2] = Len(passed[p])

\* C11: a read of a directory that is empty, or whose files *.json does not
\* match, ends normally having yielded nothing, with success count 0 and
\* failure count 0 and no warning.
C11_NoMatchReadsNothing ==
  (Ended /\ \A f \in DOMAIN in_dir : f.ext # "json") =>
     /\ reader.status = "done"
     /\ reader.error = "none"
     /\ reader.yielded = << >>
     /\ reader.good_obj_counter = 0
     /\ reader.bad_obj_counter = 0
     /\ reader.warning_logs = 0
     /\ reader.finished_logs = 1

C11_Witness ==
  /\ reader.status = "done"
  /\ DOMAIN in_dir = {OtherName}
  /\ Len(in_dir[OtherName]) = 1
  /\ reader.order = << >>

\* C12: a prefix's create_time is the clock at the first use of the prefix
\* and is the same after every later call, whatever the clock has become and
\* however often the prefix's file was rotated; every directory that holds
\* files of the prefix is <prefix>_<create_time>.
C12_SessionTimestampFixed ==
  [][/\ \A p \in DOMAIN file_counter :
          p \in DOMAIN file_counter' /\ file_counter'[p][3] = file_counter[p][3]
     /\ \A p \in DOMAIN file_counter' \ DOMAIN file_counter :
          file_counter'[p][3] = now
     /\ \A d \in DOMAIN out_dirs' :
          /\ d[1] \in DOMAIN file_counter'
          /\ d = <<d[1], file_counter'[d[1]][3]>>]_vars

C12_Witness ==
  /\ now = 1
  /\ DOMAIN file_counter = {"a"}
  /\ file_counter["a"] = <<1, 1, 0>>
  /\ DOMAIN out_dirs = {<<"a", 0>>}
  /\ DOMAIN out_dirs[<<"a", 0>>] = {FileName("a", 0), FileName("a", 1)}

\* C13: the session directory of a prefix is made by the first call for the
\* prefix, not before, and ahead of the loop that opens files; a call runs
\* os.makedirs only when it finds the prefix's counter at files_written = 0
\* and rows_written = 0, and a call that does not run it finds the directory
\* in place, so that every file is opened in a directory that exists.
C13_DirectoryMadeLazilyOnce ==
  [][calls' = calls + 1 =>
       LET p == last_call'.file_prefix
           folder == FolderName(p, file_counter'[p][3])
       IN  /\ p \notin DOMAIN file_counter =>
                /\ \A d \in DOMAIN out_dirs : d[1] # p
                /\ last_call'.makedirs
           /\ (last_call'.makedirs /\ p \in DOMAIN file_counter) =>
                file_counter[p][1] = 0 /\ file_counter[p][2] = 0
           /\ ~last_call'.makedirs => folder \in DOMAIN out_dirs
           /\ folder \in DOMAIN out_dirs'
           /\ \A d \in DOMAIN out_dirs' \ DOMAIN out_dirs :
                d = folder /\ last_call'.makedirs]_vars

C13_Witness ==
  /\ calls = 2
  /\ last_call.file_prefix = "a"
  /\ ~last_call.makedirs
  /\ ~last_call.raised
  /\ file_counter["a"] = <<1, 1, 0>>
  /\ FileName("a", 1) \in DOMAIN PrefixFiles("a")

\* C14: a call logs "Writing file" for a record exactly when the file name
\* the record is aimed at differs from the name the writer's previous record
\* was aimed at, whatever the prefix of that record (the first record of the
\* writer always logs); with one prefix in use no name is logged twice, every
\* file of the prefix was logged, and with no I/O error the events are as
\* many as the files.
C14_LogsWhenFileNameChanges ==
  [][calls' = calls + 1 =>
       LET aimed == last_call'.targets
           before == last_call.targets
           fresh == IF before # << >> /\ before[Len(before)] = aimed[1]
                    THEN Tail(aimed) ELSE aimed
       IN  /\ aimed # << >>
           /\ \A i \in 1..(Len(aimed) - 1) : aimed[i] # aimed[i + 1]
           /\ logger_info' = logger_info \o [i \in 1..Len(fresh) |-> WritingFile(fresh[i])]
           /\ \A p \in Prefixes :
                DOMAIN file_counter' = {p} =>
                  /\ Cardinality(Range(logger_info')) = Len(logger_info')
                  /\ \A f \in DOMAIN out_dirs'[FolderName(p, file_counter'[p][3])] :
                       WritingFile(f) \in Range(logger_info')
                  /\ failures' = 0 =>
                       Len(logger_info') =
                         Cardinality(DOMAIN out_dirs'[FolderName(p, file_counter'[p][3])])]_vars

C14_Witness ==
  /\ calls = 2
  /\ failures = 0
  /\ DOMAIN file_counter = {"a"}
  /\ last_call.targets = <<FileName("a", 0), FileName("a", 1)>>
  /\ logger_info = <<WritingFile(FileName("a", 0)), WritingFile(FileName("a", 1))>>
  /\ Len(passed["a"]) = ROTATION_THRESHOLD + 2

\* The lines of the files order[lo..hi], one file after the other.
RECURSIVE ConcatOrder(_, _, _, _)
ConcatOrder(dir, order, lo, hi) ==
  IF lo > hi THEN << >>
  ELSE dir[order[lo]] \o ConcatOrder(dir, order, lo + 1, hi)

\* The lines generator g has taken from its files so far: the files before
\* the one it stands in, and of that one the lines before its position.
Seen(g, dir) ==
  IF g.fidx = 0 THEN << >>
  ELSE ConcatOrder(dir, g.order, 1, g.fidx - 1)
         \o SubSeq(dir[g.order[g.fidx]], 1, g.pos - 1)

IsValid(line) ==
  /\ json_loads(line).tag = "dict"
  /\ avro_type(json_loads(line).value).tag = "ok"

ObjOf(line) == avro_type(json_loads(line).value).obj

\* C15: the reader is lazy.  Calling it reads nothing; each request for a
\* value yields at most one record; a record is yielded, its success counted,
\* with no line after its own taken from the file; and the records yielded
\* so far are the valid ones among the lines taken so far, in file order.
C15_ReaderIsLazy ==
  [][reader' # reader =>
       LET seen == Seen(reader', in_dir)
           valid == SelectSeq(seen, IsValid)
       IN  /\ reader'.status = "created" =>
                /\ reader'.order = << >>
                /\ reader'.fidx = 0
                /\ reader'.good_obj_counter + reader'.bad_obj_counter = 0
           /\ Len(reader'.yielded) <= Len(reader.yielded) + 1
           /\ reader'.status = "suspended" <=>
                Len(reader'.yielded) = Len(reader.yielded) + 1
           /\ reader'.status = "suspended" =>
                /\ seen # << >>
                /\ IsValid(seen[Len(seen)])
                /\ reader'.yielded[Len(reader'.yielded)] = ObjOf(seen[Len(seen)])
           /\ reader'.status \in {"suspended", "done"} =>
                /\ reader'.good_obj_counter + reader'.bad_obj_counter = Len(seen)
                /\ reader'.good_obj_counter = Len(reader'.yielded)
                /\ reader'.yielded = [i \in 1..Len(valid) |-> ObjOf(valid[i])]]_vars

C15_Witness ==
  /\ reader.status = "suspended"
  /\ reader.yielded = << <<"in", 2>> >>
  /\ reader.good_obj_counter = 1
  /\ reader.pos = 2
  /\ in_dir[reader.order[reader.fidx]] = <<json_dump(as_dict(<<"in", 2>>)), GarbageLine>>

\* C16: file handles are scoped.  When a call of the writer has returned or
\* raised it has no output handle open, and it never had two open at once
\* (none stays open from one record to the next), also when a write, or the
\* write of a later record, raised.  The reader has at most one input handle
\* open, none before its first value is asked for and none once it has ended,
\* normally or with an error.
C16_HandlesScoped ==
  /\ last_call.open_handles = 0
  /\ last_call.peak_handles <= 1
  /\ reader.handles <= 1
  /\ reader.handles = IF reader.open THEN 1 ELSE 0
  /\ reader.status \in {"none", "created", "done", "raised"} => reader.handles = 0

C16_Witness ==
  /\ last_call.raised
  /\ last_call.fail = [at |-> ROTATION_THRESHOLD + 1, stage |-> "write"]
  /\ last_call.peak_handles = 1
  /\ last_call.open_handles = 0
  /\ PartialLine \in Range(Lines(PrefixFiles(last_call.file_prefix),
                                  FileName(last_call.file_prefix, 0)))

\* C17: a call that creates a session directory logs one informational
\* event for it: among the events the call emits there is one that is not
\* the "Writing file" event of a record.
C17_DirectoryCreationLogged ==
  [][\A d \in DOMAIN out_dirs' \ DOMAIN out_dirs :
       \E i \in (Len(logger_info) + 1)..Len(logger_info') :
         logger_info'[i].event # "Writing file"]_vars

\* The whole lines in the files of prefix p.
RECURSIVE WholeLines(_, _)
WholeLines(dir, names) ==
  IF names = {} THEN 0
  ELSE LET f == CHOOSE x \in names : TRUE
       IN  Len(SelectSeq(dir[f], LAMBDA l : l # PartialLine))
             + WholeLines(dir, names \ {f})

\* C18: when a call for a prefix has returned, files_written * 200 +
\* rows_written of the prefix is the number of lines in the prefix's files,
\* however the records were split into calls.
C18_CounterCountsLines ==
  \A p \in DOMAIN file_counter :
    (last_call.file_prefix = p /\ ~last_call.raised) =>
       file_counter[p][1] * ROTATION_THRESHOLD + file_counter[p][2]
         = WholeLines(PrefixFiles(p), DOMAIN PrefixFiles(p))

\* C19: the file index the records of a prefix are aimed at never goes down
\* and goes up by one at a time, within a call and from one call to the
\* next; the files of a prefix are <prefix>_0.json .. <prefix>_k.json with
\* no gap; a file below the highest one is never written to again.
C19_FileIndexMonotone ==
  [][calls' = calls + 1 =>
       LET p == last_call'.file_prefix
           aimed == last_call'.targets
           before == IF p \in DOMAIN file_counter THEN PrefixFiles(p) ELSE << >>
           after == out_dirs'[FolderName(p, file_counter'[p][3])]
           hi == MaxIndex(before, p)
       IN  /\ \A i \in DOMAIN aimed : aimed[i].stem[1] = p
           /\ \A i \in 1..(Len(aimed) - 1) :
                aimed[i + 1].stem[2] = aimed[i].stem[2] + 1
           /\ aimed[1].stem[2] \in {hi, hi + 1} \ {-1}
           /\ DOMAIN after = {FileName(p, i) : i \in 0..MaxIndex(after, p)}
           /\ \A f \in DOMAIN before :
                /\ f \in DOMAIN after
                /\ f.stem[2] < hi => after[f] = before[f]]_vars

C19_Witness ==
  /\ failures = 0
  /\ last_call.targets = <<FileName("a", 1), FileName("a", 2)>>
  /\ DOMAIN PrefixFiles("a") = {FileName("a", 0), FileName("a", 1), FileName("a", 2)}
  /\ Len(PrefixFiles("a")[FileName("a", 2)]) = 1
====
